---- MODULE Spec2Model ----
(***************************************************************************)
(* rsalint: an analyzer that reports insecure usage of crypto/rsa.         *)
(*                                                                         *)
(* Two generations of the analyzer are in the repository:                  *)
(*   - the SSA analyzer (rsacheck.go, package rsacheck over go/ssa), which *)
(*     walks functions, blocks and instructions and checks three callees;  *)
(*   - the earlier AST analyzer (over go/ast call expressions), which       *)
(*     checks six callees.                                                 *)
(* Both are modelled; Spec is a run of the SSA analyzer, SpecAST a run of  *)
(* the AST analyzer.                                                       *)
(***************************************************************************)
EXTENDS Integers, Sequences, FiniteSets, TLC

VARIABLES
    fn,       \* SSA run: index of the function being walked (range ir.SrcFuncs)
    blk,      \* SSA run: index of the block being walked (range fn.Blocks)
    idx,      \* SSA run: index of the last instruction walked in the block
    nvisited, \* SSA run: number of instructions walked so far
    instr,    \* SSA run: the instruction walked last (loop variable instr)
    mark,     \* SSA run: Len(diags) when instr was reached
    visited,  \* SSA run: <<pos, callee>> of the call instructions walked so far
    diags,    \* SSA run: what pass.Reportf has received, in order
    done,     \* SSA run: run has returned nil, nil
    panicAt,  \* SSA run: the call at which run panicked (index out of range)
    astN,       \* AST run: number of call expressions Preorder has delivered
    astCall,    \* AST run: the call expression delivered last (ce)
    astMark,    \* AST run: Len(astDiags) when astCall was delivered
    astDiags,   \* AST run: what pass.Reportf has received, in order
    astPanic    \* AST run: the callback panicked (nil constant.Value dereference)

ssaVars == <<fn, blk, idx, nvisited, instr, mark, visited, diags, done, panicAt>>
astVars == <<astN, astCall, astMark, astDiags, astPanic>>
vars == <<fn, blk, idx, nvisited, instr, mark, visited, diags, done, panicAt,
          astN, astCall, astMark, astDiags, astPanic>>

(***************************************************************************)
(* Bounds of the model.                                                    *)
(***************************************************************************)
MaxFuncs == 2
MaxBlocks == 2
MaxInstrs == 2
MaxCallExprs == 2

(***************************************************************************)
(* SSA analyzer: constants.                                                *)
(***************************************************************************)
randomReader == "crypto/rand.Reader"
generateKey == "crypto/rsa.GenerateKey"
generateMultiPrimeKey == "crypto/rsa.GenerateMultiPrimeKey"
encryptPKCS1v15 == "crypto/rsa.EncryptPKCS1v15"

randSourceLintMessage == "use the crypto/rand.Reader for a cryptographically secure random number generator"
numberOfbitsLintMessage == "use 2048 bits or greater"
numberOfPrimesLintMessage == "for %v bits %v is the max number of primes to use"
multipleOf8BitsMessage == "use a multiple of 8 bits for RSA keys"
generateKeyMessage == "use rsa.GenerateKey instead of rsa.GenerateMultiPrimeKey"
oaepMessage == "use rsa.EncryptOAEP instead of rsa.EncryptPKCS1v15"

maxPrimesTable == (1024 :> 3) @@ (2048 :> 3) @@ (4096 :> 4) @@ (8192 :> 5)

\* the callees the switch of run dispatches on
RuleTable == {generateMultiPrimeKey, generateKey, encryptPKCS1v15}

(***************************************************************************)
(* pass.Reportf(pos, format, args...): one diagnostic, the message being   *)
(* the format with its arguments substituted (kept as the pair, which      *)
(* determines the formatted text).                                         *)
(***************************************************************************)
Reportf(pos, format, args) ==
    <<[pos |-> pos, msg |-> [format |-> format, args |-> args]]>>

Msg(format) == [format |-> format, args |-> <<>>]

(***************************************************************************)
(* ssa.Value: the dynamic types the checks switch on.                      *)
(*   *ssa.Const          [kind |-> "Const", int |-> n]                     *)
(*   *ssa.Call           [kind |-> "Call", callee |-> s]                   *)
(*   *ssa.MakeInterface  [kind |-> "MakeInterface", X |-> v]               *)
(*   any other value     [kind |-> "UnOp"], [kind |-> "Parameter"]         *)
(***************************************************************************)
Const(n) == [kind |-> "Const", int |-> n]
Call(s) == [kind |-> "Call", callee |-> s]
MakeInterface(v) == [kind |-> "MakeInterface", X |-> v]

\* Go's % truncates toward zero: the remainder has the sign of the dividend
GoRem(a, b) == IF a >= 0 THEN a % b ELSE 0 - ((0 - a) % b)

\* a variant that does not look through *ssa.MakeInterface
checkSecureRandomReader_noUnwrap(in, value) ==
    IF value.kind = "Call"
    THEN IF value.callee # randomReader
         THEN Reportf(in.pos, randSourceLintMessage, <<>>)
         ELSE <<>>
    ELSE IF value.kind = "MakeInterface"
         THEN Reportf(in.pos, randSourceLintMessage, <<>>)
         ELSE <<>>

\* a variant that unwraps one layer of MakeInterface and no more
checkSecureRandomReader_oneLayer(in, value) ==
    LET inner == IF value.kind = "MakeInterface" THEN value.X ELSE value
    IN  IF inner.kind = "Call" /\ inner.callee # randomReader
        THEN Reportf(in.pos, randSourceLintMessage, <<>>)
        ELSE <<>>

RECURSIVE checkSecureRandomReader(_, _)
checkSecureRandomReader(in, value) ==
    IF value.kind = "Call"
    THEN IF value.callee # randomReader
         THEN Reportf(in.pos, randSourceLintMessage, <<>>)
         ELSE <<>>
    ELSE IF value.kind = "MakeInterface"
         THEN checkSecureRandomReader(in, value.X)
         ELSE <<>>

\* a variant with the size comparison off by one (<= 2048)
checkBits_le(in, bits) ==
    IF bits.kind # "Const"
    THEN <<>>
    ELSE (IF bits.int <= 2048
          THEN Reportf(in.pos, numberOfbitsLintMessage, <<>>)
          ELSE <<>>)
         \o
         (IF GoRem(bits.int, 8) # 0
          THEN Reportf(in.pos, multipleOf8BitsMessage, <<>>)
          ELSE <<>>)

\* a variant that reads a value that is no constant as the zero value
checkBits_zeroValue(in, bits) ==
    LET b == IF bits.kind = "Const" THEN bits.int ELSE 0
    IN  (IF b < 2048
         THEN Reportf(in.pos, numberOfbitsLintMessage, <<>>)
         ELSE <<>>)
        \o
        (IF GoRem(b, 8) # 0
         THEN Reportf(in.pos, multipleOf8BitsMessage, <<>>)
         ELSE <<>>)

checkBits(in, bits) ==
    IF bits.kind # "Const"
    THEN <<>>
    ELSE (IF bits.int < 2048
          THEN Reportf(in.pos, numberOfbitsLintMessage, <<>>)
          ELSE <<>>)
         \o
         (IF GoRem(bits.int, 8) # 0
          THEN Reportf(in.pos, multipleOf8BitsMessage, <<>>)
          ELSE <<>>)

\* a variant that reports a prime count equal to the maximum (>=)
checkNPrimesForBits_ge(in, nprimes, bits) ==
    IF nprimes.kind # "Const"
    THEN <<>>
    ELSE IF bits.kind # "Const"
         THEN <<>>
         ELSE IF bits.int \in DOMAIN maxPrimesTable /\ nprimes.int >= maxPrimesTable[bits.int]
              THEN Reportf(in.pos, numberOfPrimesLintMessage,
                           <<bits.int, maxPrimesTable[bits.int]>>)
              ELSE <<>>

checkNPrimesForBits(in, nprimes, bits) ==
    IF nprimes.kind # "Const"
    THEN <<>>
    ELSE IF bits.kind # "Const"
         THEN <<>>
         ELSE IF bits.int \in DOMAIN maxPrimesTable /\ nprimes.int > maxPrimesTable[bits.int]
              THEN Reportf(in.pos, numberOfPrimesLintMessage,
                           <<bits.int, maxPrimesTable[bits.int]>>)
              ELSE <<>>

\* a variant that reports the deprecation first
checkGenerateMultiPrimeKey_first(in) ==
    LET random == in.args[1]
        nprimes == in.args[2]
        bits == in.args[3]
    IN  Reportf(in.pos, generateKeyMessage, <<>>)
        \o checkSecureRandomReader(in, random)
        \o checkBits(in, bits)
        \o checkNPrimesForBits(in, nprimes, bits)

checkGenerateMultiPrimeKey(in) ==
    LET random == in.args[1]
        nprimes == in.args[2]
        bits == in.args[3]
    IN  checkSecureRandomReader(in, random)
        \o checkBits(in, bits)
        \o checkNPrimesForBits(in, nprimes, bits)
        \o Reportf(in.pos, generateKeyMessage, <<>>)

\* a variant that checks the bits before the random source
checkGenerateKey_swapped(in) ==
    LET random == in.args[1]
        bits == in.args[2]
    IN  checkBits(in, bits)
        \o checkSecureRandomReader(in, random)

checkGenerateKey(in) ==
    LET random == in.args[1]
        bits == in.args[2]
    IN  checkSecureRandomReader(in, random)
        \o checkBits(in, bits)

checkEncryptPKCS1v15(in) ==
    checkSecureRandomReader(in, in.args[1])
    \o Reportf(in.pos, oaepMessage, <<>>)

(***************************************************************************)
(* The inputs of the SSA run: the values a call's arguments may be.        *)
(***************************************************************************)
mathRandNew == "math/rand.New"

EntropyValues ==
    { Call(randomReader),
      MakeInterface(Call(randomReader)), MakeInterface(Call(mathRandNew)),
      MakeInterface(MakeInterface(Call(mathRandNew))),
      MakeInterface(MakeInterface(Call(randomReader))),
      [kind |-> "UnOp"] }

BitsValues ==
    { Const(n) : n \in {1024, 2047, 2048, 2049, 4096} } \cup {[kind |-> "Parameter"]}

NPrimesValues ==
    { Const(n) : n \in {3, 9} } \cup {[kind |-> "Parameter"]}

OtherValues == { [kind |-> "UnOp"] }

\* the arguments of the multi-prime calls: one random source of each kind
\* checkSecureRandomReader tells apart, and the bit sizes 1024, 2048, 2049,
\* 4096 and a parameter
MultiEntropyValues ==
    { Call(randomReader), MakeInterface(Call(mathRandNew)), [kind |-> "UnOp"] }

MultiBitsValues == BitsValues \ { Const(2047) }

\* the argument lists of the matched calls.  Next to the lists of the
\* callee's arity, each callee has lists that stop short of a position its
\* check function indexes (an IR that is not the image of a type-checked
\* call: *ssa.Call and its Args are exported and can be built by hand)
GenerateMultiPrimeKeyArgs ==
    { <<random, nprimes, bits>> : random \in MultiEntropyValues,
                                   nprimes \in NPrimesValues, bits \in MultiBitsValues }
    \cup { <<MakeInterface(Call(mathRandNew)), Const(9)>> }

GenerateKeyArgs ==
    { <<random, bits>> : random \in EntropyValues, bits \in BitsValues }
    \cup { <<MakeInterface(Call(mathRandNew))>> }

EncryptPKCS1v15Args ==
    { <<random, pub, msg>> : random \in EntropyValues,
                             pub \in OtherValues, msg \in OtherValues }
    \cup { <<>> }

\* the number of argument positions the check function of a callee indexes:
\* Args[0..2] in checkGenerateMultiPrimeKey, Args[0..1] in checkGenerateKey,
\* Args[0] in checkEncryptPKCS1v15
ArgsRead(callee) ==
    CASE callee = generateMultiPrimeKey -> 3
      [] callee = generateKey -> 2
      [] callee = encryptPKCS1v15 -> 1

\* callees the switch of run does not name
OtherCallees == { "crypto/rsa.SignPSS", "crypto/sha256.Sum256" }

NoInstr == [op |-> "none"]

CallInstr(pos, callee, args) ==
    [op |-> "Call", pos |-> pos, callee |-> callee, args |-> args]

(***************************************************************************)
(* run: for fn in ir.SrcFuncs, for b in fn.Blocks, for instr in b.Instrs.  *)
(* The shape of the IR is an input: at each point the block may hold one   *)
(* more instruction, the function one more block, the package one more     *)
(* function.  A block of a well-formed function holds at least one        *)
(* instruction (it ends in a control transfer), so entering a block walks  *)
(* its first instruction.                                                  *)
(***************************************************************************)
Init ==
    /\ fn = 1
    /\ blk = 1
    /\ idx = 0
    /\ nvisited = 0
    /\ instr = NoInstr
    /\ mark = 0
    /\ visited = <<>>
    /\ diags = <<>>
    /\ done = FALSE
    /\ panicAt = NoInstr
    /\ astN = 0
    /\ astCall = [node |-> "none"]
    /\ astMark = 0
    /\ astDiags = <<>>
    /\ astPanic = FALSE

\* the loops of run are still running: run has neither returned nor panicked
CanVisit == ~done /\ panicAt = NoInstr /\ nvisited < MaxInstrs

\* where the loops find the instruction walked next: further in the block,
\* at the head of the function's next block, or at the head of the first
\* block of the next function
Moves == {"instr", "block", "func"}

CanMove(where) ==
    CASE where = "instr" -> TRUE
      [] where = "block" -> idx >= 1 /\ blk < MaxBlocks
      [] where = "func" -> idx >= 1 /\ fn < MaxFuncs

\* instr.Pos() of that instruction: <<function, block, index in the block>>
NextPos(where) ==
    CASE where = "instr" -> <<fn, blk, idx + 1>>
      [] where = "block" -> <<fn, blk + 1, 1>>
      [] where = "func" -> <<fn + 1, 1, 1>>

\* a variant in which the instruction's diagnostics go in front of the
\* earlier ones
Walk_prepend(in, out) ==
    /\ instr' = in
    /\ mark' = Len(diags)
    /\ diags' = out \o diags
    /\ fn' = in.pos[1]
    /\ blk' = in.pos[2]
    /\ idx' = in.pos[3]
    /\ nvisited' = nvisited + 1
    /\ visited' = IF in.op = "Call"
                  THEN Append(visited, <<in.pos, in.callee>>)
                  ELSE visited
    /\ UNCHANGED <<done, panicAt>>
    /\ UNCHANGED astVars

\* one instruction is walked: in is the instruction, out what the case of
\* the switch it falls in reports
Walk(in, out) ==
    /\ instr' = in
    /\ mark' = Len(diags)
    /\ diags' = diags \o out
    /\ fn' = in.pos[1]
    /\ blk' = in.pos[2]
    /\ idx' = in.pos[3]
    /\ nvisited' = nvisited + 1
    /\ visited' = IF in.op = "Call"
                  THEN Append(visited, <<in.pos, in.callee>>)
                  ELSE visited
    /\ UNCHANGED <<done, panicAt>>
    /\ UNCHANGED astVars

\* instr.Call.Args[k] with k >= len(Args): the index expression panics
\* before anything is reported for in; nothing in run recovers, so the
\* panic leaves run and the loops over the remaining instructions, blocks
\* and functions are never resumed
Panic(in) ==
    /\ panicAt' = in
    /\ UNCHANGED <<fn, blk, idx, nvisited, instr, mark, visited, diags, done>>
    /\ UNCHANGED astVars

\* the case of the switch for a matched call: its check function indexes
\* Args before it reports anything
Step(in, out) ==
    IF Len(in.args) < ArgsRead(in.callee) THEN Panic(in) ELSE Walk(in, out)

VisitGenerateMultiPrimeKey ==
    /\ CanVisit
    /\ \E where \in Moves, args \in GenerateMultiPrimeKeyArgs :
          LET in == CallInstr(NextPos(where), generateMultiPrimeKey, args)
          IN  CanMove(where) /\ Step(in, checkGenerateMultiPrimeKey(in))

VisitGenerateKey ==
    /\ CanVisit
    /\ \E where \in Moves, args \in GenerateKeyArgs :
          LET in == CallInstr(NextPos(where), generateKey, args)
          IN  CanMove(where) /\ Step(in, checkGenerateKey(in))

VisitEncryptPKCS1v15 ==
    /\ CanVisit
    /\ \E where \in Moves, args \in EncryptPKCS1v15Args :
          LET in == CallInstr(NextPos(where), encryptPKCS1v15, args)
          IN  CanMove(where) /\ Step(in, checkEncryptPKCS1v15(in))

\* a variant whose default case runs a check instead of continuing
VisitOtherCall_checked ==
    /\ CanVisit
    /\ \E where \in Moves, callee \in OtherCallees,
          a \in {MakeInterface(Call(mathRandNew))} :
          LET in == CallInstr(NextPos(where), callee, <<a>>)
          IN  CanMove(where) /\ Walk(in, checkSecureRandomReader(in, a))

\* default: continue
VisitOtherCall ==
    /\ CanVisit
    /\ \E where \in Moves, callee \in OtherCallees,
          a \in {MakeInterface(Call(mathRandNew))} :
          CanMove(where) /\ Walk(CallInstr(NextPos(where), callee, <<a>>), <<>>)

\* an instruction that is not a *ssa.Call
VisitNonCall ==
    /\ CanVisit
    /\ \E where \in Moves :
          CanMove(where) /\ Walk([op |-> "Store", pos |-> NextPos(where)], <<>>)

\* the loops are exhausted (at once when ir.SrcFuncs is empty)
Return ==
    /\ ~done
    /\ panicAt = NoInstr
    /\ done' = TRUE
    /\ UNCHANGED <<fn, blk, idx, nvisited, instr, mark, visited, diags, panicAt>>
    /\ UNCHANGED astVars

Next ==
    \/ VisitGenerateMultiPrimeKey
    \/ VisitGenerateKey
    \/ VisitEncryptPKCS1v15
    \/ VisitOtherCall
    \/ VisitNonCall
    \/ Return

Spec == Init /\ [][Next]_vars

\* the diagnostics reported for the instruction walked last
instrDiags == SubSeq(diags, mark + 1, Len(diags))
instrMsgs == [i \in 1..Len(instrDiags) |-> instrDiags[i].msg]

(***************************************************************************)
(* AST analyzer: constants.                                                *)
(***************************************************************************)
randSourceLintMessageAST == "use the crypto/rand.Reader instead for a cryptographically secure random number generator"
numberOfbitsLintMessageAST == "always use 2048 bits or greater"
numberOfPrimesLintMessageAST == "the reccomended number of primes for %v bits is %v"
hashLintSigningMessage == "use SHA 256/512 for hash when signing"
hashLintEncDecMessage == "use SHA 256/512 for hash when decrypting or encrypting"
keySizeLintcMessage == "use a session key size of 16 bytes or greater"
signingLintMessage == "use rsa.SignPSS instead of rsa.SignPKCS1v15"
encryptingLintMessage == "use rsa.EncryptOAEP instead of rsa.EncryptPKCS1v15"
blidingLintMessage == "do not use nil for entropy source to perform blinding to avoid timing side-channel attacks"

\* a Go string the analyzer computes is the sequence of its characters
recommendedMaxNumberOfPrimesForBitsTable ==
    (<<"1", "0", "2", "4">> :> <<"3">>) @@ (<<"2", "0", "4", "8">> :> <<"3">>)
    @@ (<<"4", "0", "9", "6">> :> <<"4">>) @@ (<<"8", "1", "9", "2">> :> <<"5">>)

\* the selectors the Preorder callback compares ce.Fun with
AstRuleTable ==
    { "rsa.GenerateKey", "rsa.GenerateMultiPrimeKey", "rsa.DecryptOAEP",
      "rsa.SignPKCS1v15", "rsa.DecryptPKCS1v15SessionKey", "rsa.EncryptPKCS1v15" }

(***************************************************************************)
(* ast.Expr with what pass.TypesInfo records of it:                        *)
(*   node   the dynamic type of the expression                             *)
(*   pos    e.Pos(): <<n, k>>, the k-th argument of the n-th call          *)
(*          expression delivered (k = 0: the call's Fun)                   *)
(*   type   pass.TypesInfo.TypeOf(e).String()                              *)
(*   value  pass.TypesInfo.Types[e].Value, a constant.Value or nil         *)
(*   X, Sel of a selector; fun, arg of a call; nelts, len of a composite   *)
(*          literal (len(Elts) and the length of the slice it denotes,     *)
(*          which is larger when elements are keyed, as in []byte{15: 1})  *)
(***************************************************************************)
NilValue == [isNil |-> TRUE]
IntValue(n) == [isNil |-> FALSE, kind |-> "Int", int |-> n]
\* a string constant of len bytes whose quoted form is qlen characters long
StringValue(len, qlen) == [isNil |-> FALSE, kind |-> "String", len |-> len, qlen |-> qlen]

Digit(d) ==
    CASE d = 0 -> "0" [] d = 1 -> "1" [] d = 2 -> "2" [] d = 3 -> "3" [] d = 4 -> "4"
      [] d = 5 -> "5" [] d = 6 -> "6" [] d = 7 -> "7" [] d = 8 -> "8" [] d = 9 -> "9"

RECURSIVE Itoa(_)
Itoa(n) ==
    IF n < 0 THEN <<"-">> \o Itoa(0 - n)
    ELSE IF n < 10 THEN <<Digit(n)>>
    ELSE Itoa(n \div 10) \o <<Digit(n % 10)>>

\* constant.Value.String(): an integer in decimal; a string quoted, and cut
\* to 72 characters ending in "..." (no closing quote) when it is longer
ValueString(v) ==
    IF v.kind = "Int"
    THEN [text |-> Itoa(v.int), quoted |-> FALSE]
    ELSE [quoted |-> TRUE, len |-> v.len, cut |-> v.qlen > 72]

\* fmt.Sprintf("%v", v) of a constant.Value that may be nil
SprintfValue(v) ==
    IF v.isNil THEN <<"<", "n", "i", "l", ">">> ELSE ValueString(v).text

DigitVal(c) ==
    CASE c = "0" -> 0 [] c = "1" -> 1 [] c = "2" -> 2 [] c = "3" -> 3 [] c = "4" -> 4
      [] c = "5" -> 5 [] c = "6" -> 6 [] c = "7" -> 7 [] c = "8" -> 8 [] c = "9" -> 9
      [] OTHER -> -1

RECURSIVE ParseDigits(_, _)
ParseDigits(s, acc) ==
    IF s = <<>> THEN acc
    ELSE IF acc < 0 \/ DigitVal(Head(s)) < 0 THEN -1
    ELSE ParseDigits(Tail(s), acc * 10 + DigitVal(Head(s)))

\* strconv.Atoi
Atoi(s) ==
    LET neg == s # <<>> /\ Head(s) = "-"
        ds == IF s # <<>> /\ Head(s) \in {"-", "+"} THEN Tail(s) ELSE s
        n == IF ds = <<>> THEN -1 ELSE ParseDigits(ds, 0)
    IN  IF n < 0 THEN [err |-> TRUE, val |-> 0]
        ELSE [err |-> FALSE, val |-> IF neg THEN 0 - n ELSE n]

\* strconv.Unquote of the String() of a string constant
Unquote(q) ==
    IF q.cut THEN [err |-> TRUE, len |-> 0] ELSE [err |-> FALSE, len |-> q.len]

\* what a check leaves: the diagnostics reported, and whether it panicked
Res(d) == [diags |-> d, panic |-> FALSE]
Panicked == [diags |-> <<>>, panic |-> TRUE]
Then(a, b) ==
    IF a.panic THEN a ELSE [diags |-> a.diags \o b.diags, panic |-> b.panic]

isOfSelectorExprType(typeStr, e) ==
    IF e.node = "SelectorExpr"
    THEN e.X \o "." \o e.Sel = typeStr
    ELSE FALSE

checkBlindKeyOp(e) ==
    IF e.type = "untyped nil"
    THEN Res(Reportf(e.pos, blidingLintMessage, <<>>))
    ELSE Res(<<>>)

checkSecureEntropySource(e) ==
    IF ~isOfSelectorExprType("rand.Reader", e)
    THEN Res(Reportf(e.pos, randSourceLintMessageAST, <<>>))
    ELSE Res(<<>>)

\* Value.String() of a nil constant.Value is a nil dereference
checkSecureNumberOfBits(e) ==
    IF e.value.isNil THEN Panicked
    ELSE LET r == Atoi(ValueString(e.value).text)
         IN  IF ~r.err /\ r.val < 2048
             THEN Res(Reportf(e.pos, numberOfbitsLintMessageAST, <<>>))
             ELSE Res(<<>>)

checkSecureNumberOfPrimesForBits(e1, e2) ==
    IF e1.value.isNil \/ e2.value.isNil THEN Panicked
    ELSE LET nprimes == ValueString(e1.value).text
             bits == ValueString(e2.value).text
         IN  IF bits \in DOMAIN recommendedMaxNumberOfPrimesForBitsTable
                /\ recommendedMaxNumberOfPrimesForBitsTable[bits] # nprimes
             THEN Res(Reportf(e1.pos, numberOfPrimesLintMessageAST,
                              <<bits, recommendedMaxNumberOfPrimesForBitsTable[bits]>>))
             ELSE Res(<<>>)

\* a variant that accepts the identifier 3 (crypto.SHA1) in place of 5
checkSecureHashAlgo_sha1(e) ==
    LET hashValue == SprintfValue(e.value)
    IN  IF hashValue # <<"7">> /\ hashValue # <<"3">>
        THEN Res(Reportf(e.pos, hashLintSigningMessage, <<>>))
        ELSE Res(<<>>)

checkSecureHashAlgo(e) ==
    LET hashValue == SprintfValue(e.value)
    IN  IF hashValue # <<"7">> /\ hashValue # <<"5">>
        THEN Res(Reportf(e.pos, hashLintSigningMessage, <<>>))
        ELSE Res(<<>>)

\* a variant that accepts every sha* constructor
checkSecureHashFunc_anySha(e) ==
    IF e.node = "CallExpr" /\ e.fun.node = "SelectorExpr"
       /\ e.fun.X \notin {"sha1", "sha256", "sha512"}
    THEN Res(Reportf(e.pos, hashLintEncDecMessage, <<>>))
    ELSE Res(<<>>)

checkSecureHashFunc(e) ==
    IF e.node = "CallExpr"
    THEN IF e.fun.node = "SelectorExpr"
         THEN IF ~isOfSelectorExprType("sha256.New", e.fun)
                 /\ ~isOfSelectorExprType("sha512.New", e.fun)
              THEN Res(Reportf(e.pos, hashLintEncDecMessage, <<>>))
              ELSE Res(<<>>)
         ELSE Res(<<>>)
    ELSE Res(<<>>)

checkPKCS1v15SessionKeySize(e) ==
    IF e.type = "untyped nil"
    THEN Res(Reportf(e.pos, keySizeLintcMessage, <<>>))
    ELSE IF e.type = "[]byte"
    THEN IF e.node = "CallExpr"
         THEN IF e.fun.type = "[]byte"
              THEN IF e.arg.value.isNil THEN Panicked
                   ELSE LET s == Unquote(ValueString(e.arg.value))
                        IN  IF ~s.err /\ s.len < 16
                            THEN Res(Reportf(e.pos, keySizeLintcMessage, <<>>))
                            ELSE Res(<<>>)
              ELSE Res(<<>>)
         ELSE IF e.node = "CompositeLit"
         THEN IF e.nelts < 16
              THEN Res(Reportf(e.pos, keySizeLintcMessage, <<>>))
              ELSE Res(<<>>)
         ELSE Res(Reportf(e.pos, "TRACE: %v", <<e.type>>))
    ELSE Res(<<>>)

(***************************************************************************)
(* The inputs of the AST run: the expressions a call's arguments may be.   *)
(***************************************************************************)
Selector(x, sel, type, value) ==
    [node |-> "SelectorExpr", X |-> x, Sel |-> sel, type |-> type, value |-> value]
Ident(type) == [node |-> "Ident", type |-> type, value |-> NilValue]
IntLit(n) == [node |-> "BasicLit", type |-> "int", value |-> IntValue(n)]

\* rand.Reader, nil, and r (a *math/rand.Rand)
AstEntropyExprs ==
    { Selector("rand", "Reader", "io.Reader", NilValue),
      Ident("untyped nil"),
      Ident("*math/rand.Rand") }

AstBitsExprs == { IntLit(n) : n \in {1024, 2048} } \cup { Ident("int") }

AstNPrimesExprs == { IntLit(n) : n \in {3, 9} } \cup { Ident("int") }

\* crypto.Hash(0), crypto.SHA1, crypto.SHA256, crypto.SHA512, and a variable
AstHashIdExprs ==
    { [node |-> "CallExpr", type |-> "crypto.Hash", value |-> IntValue(0)],
      Selector("crypto", "SHA1", "crypto.Hash", IntValue(3)),
      Selector("crypto", "SHA256", "crypto.Hash", IntValue(5)),
      Selector("crypto", "SHA512", "crypto.Hash", IntValue(7)),
      Ident("crypto.Hash") }

\* sha1.New(), md5.New(), sha256.New(), sha512.New(), newHash() (a call
\* whose Fun is no selector), and a variable
AstHashFuncExprs ==
    { [node |-> "CallExpr", type |-> "hash.Hash", value |-> NilValue,
       fun |-> Selector(x, "New", "func() hash.Hash", NilValue)]
         : x \in {"sha1", "md5", "sha256", "sha512"} }
    \cup { [node |-> "CallExpr", type |-> "hash.Hash", value |-> NilValue,
            fun |-> Ident("func() hash.Hash")],
           Ident("hash.Hash") }

\* byte lengths and quoted lengths of the string constants converted
StringConsts == { <<4, 6>>, <<15, 17>>, <<15, 62>>, <<16, 18>>, <<80, 82>> }
\* len(Elts) and slice length of the composite literals
CompositeLits == { <<1, 1>>, <<15, 15>>, <<16, 16>>, <<1, 16>> }

\* nil; []byte("..."); []byte(s); buf.Bytes(); []byte{...}; a variable
AstSessionKeyExprs ==
    { Ident("untyped nil"), Ident("[]byte") }
    \cup { [node |-> "CallExpr", type |-> "[]byte", value |-> NilValue,
            fun |-> [node |-> "ArrayType", type |-> "[]byte"],
            arg |-> [node |-> "BasicLit", type |-> "string",
                     value |-> StringValue(c[1], c[2])]] : c \in StringConsts }
    \cup { [node |-> "CallExpr", type |-> "[]byte", value |-> NilValue,
            fun |-> [node |-> "ArrayType", type |-> "[]byte"],
            arg |-> Ident("string")],
           [node |-> "CallExpr", type |-> "[]byte", value |-> NilValue,
            fun |-> Selector("buf", "Bytes", "func() []byte", NilValue)] }
    \cup { [node |-> "CompositeLit", type |-> "[]byte", value |-> NilValue,
            nelts |-> c[1], len |-> c[2]] : c \in CompositeLits }

AstOtherExprs == { Ident("*crypto/rsa.PrivateKey") }

\* callees the callback matches none of its selectors with
AstOtherFuns ==
    { Selector("rsa", "VerifyPKCS1v15", "func", NilValue),
      Selector("rsa", "EncryptOAEP", "func", NilValue),
      Ident("func") }

\* e as the k-th argument of the call expression being delivered
At(e, k) == e @@ [pos |-> <<astN + 1, k>>]

RsaCall(sel, args) ==
    [node |-> "CallExpr",
     fun |-> At(Selector("rsa", sel, "func", NilValue), 0),
     args |-> args]

(***************************************************************************)
(* inspect.Preorder(nodeFilter, func(n ast.Node) {...}): the callback is   *)
(* run on every call expression, in order; one action per branch of it.    *)
(***************************************************************************)
CanDeliver == ~astPanic /\ astN < MaxCallExprs

Deliver(ce, res) ==
    /\ astCall' = ce
    /\ astMark' = Len(astDiags)
    /\ astDiags' = astDiags \o res.diags
    /\ astPanic' = res.panic
    /\ astN' = astN + 1
    /\ UNCHANGED ssaVars

AstGenerateKey ==
    /\ CanDeliver
    /\ \E random \in AstEntropyExprs, bits \in AstBitsExprs :
          LET ce == RsaCall("GenerateKey", <<At(random, 1), At(bits, 2)>>)
          IN  /\ isOfSelectorExprType("rsa.GenerateKey", ce.fun)
              /\ Deliver(ce, Then(checkSecureEntropySource(ce.args[1]),
                                  checkSecureNumberOfBits(ce.args[2])))

AstGenerateMultiPrimeKey ==
    /\ CanDeliver
    /\ \E random \in AstEntropyExprs, nprimes \in AstNPrimesExprs, bits \in AstBitsExprs :
          LET ce == RsaCall("GenerateMultiPrimeKey",
                            <<At(random, 1), At(nprimes, 2), At(bits, 3)>>)
          IN  /\ isOfSelectorExprType("rsa.GenerateMultiPrimeKey", ce.fun)
              /\ Deliver(ce, Then(checkSecureEntropySource(ce.args[1]),
                             Then(checkSecureNumberOfBits(ce.args[3]),
                                  checkSecureNumberOfPrimesForBits(ce.args[2], ce.args[3]))))

AstDecryptOAEP ==
    /\ CanDeliver
    /\ \E hash \in AstHashFuncExprs, random \in AstEntropyExprs, priv \in AstOtherExprs :
          LET ce == RsaCall("DecryptOAEP", <<At(hash, 1), At(random, 2), At(priv, 3)>>)
          IN  /\ isOfSelectorExprType("rsa.DecryptOAEP", ce.fun)
              /\ Deliver(ce, Then(checkSecureHashFunc(ce.args[1]),
                             Then(checkSecureEntropySource(ce.args[2]),
                                  checkBlindKeyOp(ce.args[2]))))

AstSignPKCS1v15 ==
    /\ CanDeliver
    /\ \E random \in AstEntropyExprs, priv \in AstOtherExprs, hash \in AstHashIdExprs :
          LET ce == RsaCall("SignPKCS1v15", <<At(random, 1), At(priv, 2), At(hash, 3)>>)
          IN  /\ isOfSelectorExprType("rsa.SignPKCS1v15", ce.fun)
              /\ Deliver(ce, Then(checkSecureEntropySource(ce.args[1]),
                             Then(checkBlindKeyOp(ce.args[1]),
                             Then(checkSecureHashAlgo(ce.args[3]),
                                  Res(Reportf(ce.fun.pos, signingLintMessage, <<>>))))))

AstDecryptPKCS1v15SessionKey ==
    /\ CanDeliver
    /\ \E random \in AstEntropyExprs, priv \in AstOtherExprs, key \in AstSessionKeyExprs :
          LET ce == RsaCall("DecryptPKCS1v15SessionKey",
                            <<At(random, 1), At(priv, 2), At(priv, 3), At(key, 4)>>)
          IN  /\ isOfSelectorExprType("rsa.DecryptPKCS1v15SessionKey", ce.fun)
              /\ Deliver(ce, Then(checkBlindKeyOp(ce.args[1]),
                                  checkPKCS1v15SessionKeySize(ce.args[4])))

AstEncryptPKCS1v15 ==
    /\ CanDeliver
    /\ \E random \in AstEntropyExprs, pub \in AstOtherExprs :
          LET ce == RsaCall("EncryptPKCS1v15", <<At(random, 1), At(pub, 2)>>)
          IN  /\ isOfSelectorExprType("rsa.EncryptPKCS1v15", ce.fun)
              /\ Deliver(ce, Then(checkSecureEntropySource(ce.args[1]),
                                  Res(Reportf(ce.fun.pos, encryptingLintMessage, <<>>))))

\* a call expression that no branch matches, or whose Fun is no selector
AstOtherCall ==
    /\ CanDeliver
    /\ \E f \in AstOtherFuns, a \in AstEntropyExprs :
          LET ce == [node |-> "CallExpr", fun |-> At(f, 0), args |-> <<At(a, 1)>>]
          IN  /\ \A sel \in AstRuleTable : ~isOfSelectorExprType(sel, ce.fun)
              /\ Deliver(ce, Res(<<>>))

NextAST ==
    \/ AstGenerateKey
    \/ AstGenerateMultiPrimeKey
    \/ AstDecryptOAEP
    \/ AstSignPKCS1v15
    \/ AstDecryptPKCS1v15SessionKey
    \/ AstEncryptPKCS1v15
    \/ AstOtherCall

SpecAST == Init /\ [][NextAST]_vars

\* the diagnostics reported for the call expression delivered last
astCallDiags == SubSeq(astDiags, astMark + 1, Len(astDiags))
astCallMsgs == [i \in 1..Len(astCallDiags) |-> astCallDiags[i].msg]

(***************************************************************************)
(* Vocabulary of the properties (SSA run).                                 *)
(***************************************************************************)
Range(s) == { s[i] : i \in DOMAIN s }
Count(m, s) == Cardinality({ i \in DOMAIN s : s[i] = m })
If(c, m) == IF c THEN <<m>> ELSE <<>>

IsCallTo(c) == instr.op = "Call" /\ instr.callee = c
IsMatched == instr.op = "Call" /\ instr.callee \in RuleTable

\* the bit-size argument of the call walked last (key generation only)
bitsArg == IF instr.callee = generateMultiPrimeKey THEN instr.args[3] ELSE instr.args[2]

\* a call result from a source other than crypto/rand.Reader, wrapped once
WrappedNonSecure(v) ==
    v.kind = "MakeInterface" /\ v.X.kind = "Call" /\ v.X.callee # randomReader

\* crypto/rand.Reader, directly or through one layer of interface wrapping
SecureArg(v) ==
    \/ v.kind = "Call" /\ v.callee = randomReader
    \/ v.kind = "MakeInterface" /\ v.X.kind = "Call" /\ v.X.callee = randomReader

\* whether the weak-entropy check is to fire on v: decided for a call result
\* and for a call result wrapped once, never for a value that is neither a
\* call result nor a wrapped value, left open for deeper wrapping chains
EntropyOutcomes(v) ==
    IF v.kind = "Call" THEN { v.callee # randomReader }
    ELSE IF v.kind = "MakeInterface" /\ v.X.kind = "Call" THEN { v.X.callee # randomReader }
    ELSE IF v.kind = "MakeInterface" /\ v.X.kind = "MakeInterface" THEN { TRUE, FALSE }
    ELSE { FALSE }

SizeFires(v) == v.kind = "Const" /\ v.int < 2048
Mult8Fires(v) == v.kind = "Const" /\ v.int % 8 # 0

\* the Primes-per-bits Table {1024->3, 2048->3, 4096->4, 8192->5}
PrimesKeys == {1024, 2048, 4096, 8192}
PrimesMax(b) == CASE b = 1024 -> 3 [] b = 2048 -> 3 [] b = 4096 -> 4 [] b = 8192 -> 5
PrimesFires(n, b) ==
    n.kind = "Const" /\ b.kind = "Const" /\ b.int \in PrimesKeys /\ n.int > PrimesMax(b.int)
PrimesMsg(b) == [format |-> numberOfPrimesLintMessage, args |-> <<b, PrimesMax(b)>>]
IsPrimesMsg(m) == m.format = numberOfPrimesLintMessage

C2_BitsThresholds ==
    (instr.op = "Call" /\ instr.callee \in {generateKey, generateMultiPrimeKey}
        /\ bitsArg.kind = "Const")
    => /\ Count(Msg(numberOfbitsLintMessage), instrMsgs) = (IF bitsArg.int < 2048 THEN 1 ELSE 0)
       /\ Count(Msg(multipleOf8BitsMessage), instrMsgs) = (IF bitsArg.int % 8 # 0 THEN 1 ELSE 0)
       /\ bitsArg.int = 2048 => Msg(numberOfbitsLintMessage) \notin Range(instrMsgs)
       /\ bitsArg.int = 2047 => Msg(numberOfbitsLintMessage) \in Range(instrMsgs)
       /\ bitsArg.int = 2049 => /\ Msg(multipleOf8BitsMessage) \in Range(instrMsgs)
                                /\ Msg(numberOfbitsLintMessage) \notin Range(instrMsgs)

C2_Witness ==
    /\ IsCallTo(generateKey)
    /\ instr.args[2] = Const(2049)
    /\ Msg(multipleOf8BitsMessage) \in Range(instrMsgs)
    /\ Msg(numberOfbitsLintMessage) \notin Range(instrMsgs)

(***************************************************************************)
(* C3: for a multi-prime call with constant prime count n and constant bit *)
(* size b, the prime-count diagnostic is emitted exactly when b is a key   *)
(* of the Primes-per-bits Table and n exceeds the table's maximum for b,   *)
(* and its message carries b and that maximum.                             *)
(***************************************************************************)
C3_PrimeCount ==
    (IsCallTo(generateMultiPrimeKey) /\ instr.args[2].kind = "Const"
        /\ instr.args[3].kind = "Const")
    => LET n == instr.args[2]
           b == instr.args[3]
           primes == { i \in DOMAIN instrMsgs : IsPrimesMsg(instrMsgs[i]) }
       IN  IF PrimesFires(n, b)
           THEN /\ Cardinality(primes) = 1
                /\ \A i \in primes : instrMsgs[i] = PrimesMsg(b.int)
           ELSE primes = {}

C3_Witness ==
    /\ IsCallTo(generateMultiPrimeKey)
    /\ instr.args[2] = Const(9)
    /\ instr.args[3] = Const(1024)
    /\ [format |-> numberOfPrimesLintMessage, args |-> <<1024, 3>>] \in Range(instrMsgs)

(***************************************************************************)
(* C4: the diagnostics of a matched call are those of the checks that      *)
(* fire, in the declared order of the checks, and the unconditional        *)
(* diagnostic of multi-prime key generation and of legacy padding encrypt  *)
(* comes exactly once and last: entropy, bit-size, multiple-of-8,          *)
(* prime-count, 'use rsa.GenerateKey'; entropy, 'use rsa.EncryptOAEP'.     *)
(***************************************************************************)
C4_DeclaredOrder ==
    /\ IsCallTo(generateMultiPrimeKey) =>
          \E e \in EntropyOutcomes(instr.args[1]) :
             instrMsgs = If(e, Msg(randSourceLintMessage))
                         \o If(SizeFires(instr.args[3]), Msg(numberOfbitsLintMessage))
                         \o If(Mult8Fires(instr.args[3]), Msg(multipleOf8BitsMessage))
                         \o (IF PrimesFires(instr.args[2], instr.args[3])
                             THEN <<PrimesMsg(instr.args[3].int)>> ELSE <<>>)
                         \o <<Msg(generateKeyMessage)>>
    /\ IsCallTo(encryptPKCS1v15) =>
          \E e \in EntropyOutcomes(instr.args[1]) :
             instrMsgs = If(e, Msg(randSourceLintMessage)) \o <<Msg(oaepMessage)>>
    /\ IsCallTo(generateKey) =>
          \E e \in EntropyOutcomes(instr.args[1]) :
             instrMsgs = If(e, Msg(randSourceLintMessage))
                         \o If(SizeFires(instr.args[2]), Msg(numberOfbitsLintMessage))
                         \o If(Mult8Fires(instr.args[2]), Msg(multipleOf8BitsMessage))

C4_Witness ==
    /\ IsCallTo(generateMultiPrimeKey)
    /\ instrMsgs = << Msg(randSourceLintMessage), Msg(numberOfbitsLintMessage),
                       PrimesMsg(1024), Msg(generateKeyMessage) >>
    /\ mark > 0

(***************************************************************************)
(* C5: a call whose callee is not in the Rule Table yields no diagnostic,  *)
(* whatever its arguments; every diagnostic emitted in a run is at the     *)
(* position of a call whose callee is a key of the Rule Table.             *)
(***************************************************************************)
C5_OnlyRuleTableCallees ==
    /\ (instr.op = "Call" /\ instr.callee \notin RuleTable) => instrDiags = <<>>
    /\ \A i \in DOMAIN diags :
          \E j \in DOMAIN visited :
             visited[j][1] = diags[i].pos /\ visited[j][2] \in RuleTable

C5_Witness ==
    /\ instr.op = "Call"
    /\ instr.callee \notin RuleTable
    /\ WrappedNonSecure(instr.args[1])
    /\ instrDiags = <<>>
    /\ diags # <<>>

(***************************************************************************)
(* C6: an entropy argument that is crypto/rand.Reader, directly or through *)
(* one layer of interface wrapping, never gives the weak-entropy           *)
(* diagnostic for a matched call; crypto/rsa.GenerateKey with the secure   *)
(* source and the constant 2048 gives no diagnostic at all.                *)
(***************************************************************************)
C6_SecureSourceSilent ==
    /\ (IsMatched /\ SecureArg(instr.args[1]))
          => Msg(randSourceLintMessage) \notin Range(instrMsgs)
    /\ (IsCallTo(generateKey) /\ SecureArg(instr.args[1]) /\ instr.args[2] = Const(2048))
          => instrDiags = <<>>

C6_Witness ==
    /\ IsCallTo(generateKey)
    /\ instr.args[1] = MakeInterface(Call(randomReader))
    /\ instr.args[2] = Const(2048)
    /\ instrDiags = <<>>

(***************************************************************************)
(* C10: a check whose argument is unresolved is skipped silently: a bit    *)
(* size that is no constant gives no size and no multiple-of-8 diagnostic, *)
(* a prime count or bit size that is no constant gives no prime-count      *)
(* diagnostic, an entropy argument that is neither a call result nor a     *)
(* wrapped value gives no weak-entropy diagnostic; the call is still       *)
(* walked to its end, and the other checks and the unconditional           *)
(* diagnostic of the call are as they are without the unresolved argument. *)
(***************************************************************************)
Unresolved(v) == v.kind \notin {"Const", "Call", "MakeInterface"}

C10_UnresolvedSkipped ==
    IsMatched =>
       LET random == instr.args[1]
           keygen == instr.callee \in {generateKey, generateMultiPrimeKey}
           multi == instr.callee = generateMultiPrimeKey
       IN  /\ (keygen /\ Unresolved(bitsArg)) =>
                 /\ Msg(numberOfbitsLintMessage) \notin Range(instrMsgs)
                 /\ Msg(multipleOf8BitsMessage) \notin Range(instrMsgs)
           /\ (multi /\ (Unresolved(instr.args[2]) \/ Unresolved(instr.args[3]))) =>
                 \A i \in DOMAIN instrMsgs : ~IsPrimesMsg(instrMsgs[i])
           /\ Unresolved(random) => Msg(randSourceLintMessage) \notin Range(instrMsgs)
           \* the other checks of the call
           /\ (keygen /\ Unresolved(random) /\ ~Unresolved(bitsArg)) =>
                 /\ SizeFires(bitsArg) <=> Msg(numberOfbitsLintMessage) \in Range(instrMsgs)
                 /\ Mult8Fires(bitsArg) <=> Msg(multipleOf8BitsMessage) \in Range(instrMsgs)
           /\ (keygen /\ Unresolved(bitsArg) /\ WrappedNonSecure(random)) =>
                 instrMsgs[1] = Msg(randSourceLintMessage)
           /\ (multi /\ Unresolved(instr.args[2]) /\ ~Unresolved(bitsArg)) =>
                 SizeFires(bitsArg) <=> Msg(numberOfbitsLintMessage) \in Range(instrMsgs)
           \* the unconditional diagnostic, and the walk past the call
           /\ multi => instrMsgs[Len(instrMsgs)] = Msg(generateKeyMessage)
           /\ instr.callee = encryptPKCS1v15 => instrMsgs[Len(instrMsgs)] = Msg(oaepMessage)
           /\ visited[Len(visited)] = <<instr.pos, instr.callee>>

C10_Witness ==
    /\ IsCallTo(generateMultiPrimeKey)
    /\ WrappedNonSecure(instr.args[1])
    /\ Unresolved(instr.args[2])
    /\ Unresolved(instr.args[3])
    /\ instrMsgs = <<Msg(randSourceLintMessage), Msg(generateKeyMessage)>>

(***************************************************************************)
(* Vocabulary of the properties (AST run).                                 *)
(***************************************************************************)
IsAstCallTo(sel) ==
    /\ astCall.node = "CallExpr"
    /\ astCall.fun.node = "SelectorExpr"
    /\ astCall.fun.X = "rsa"
    /\ astCall.fun.Sel = sel

IsNilExpr(e) == e.type = "untyped nil"
IsRandReader(e) == e.node = "SelectorExpr" /\ e.X = "rand" /\ e.Sel = "Reader"

\* a byte-sequence literal: []byte("...") of a string constant, or []byte{...}
IsByteLiteral(e) ==
    \/ e.node = "CompositeLit"
    \/ e.node = "CallExpr" /\ e.fun.node = "ArrayType" /\ ~e.arg.value.isNil
LiteralLen(e) == IF e.node = "CompositeLit" THEN e.len ELSE e.arg.value.len

\* a byte sequence whose length is not known at analysis time
IsDynamicBytes(e) == ~IsNilExpr(e) /\ ~IsByteLiteral(e)

\* a package-qualified call other than sha256.New() and sha512.New()
WeakHashConstructor(e) ==
    /\ e.node = "CallExpr"
    /\ e.fun.node = "SelectorExpr"
    /\ <<e.fun.X, e.fun.Sel>> \notin { <<"sha256", "New">>, <<"sha512", "New">> }

(***************************************************************************)
(* C7: rsa.SignPKCS1v15 with an untyped-nil entropy argument and a hash    *)
(* identifier other than the two accepted ones (crypto.SHA256 = 5,         *)
(* crypto.SHA512 = 7) emits exactly four diagnostics, in this order:       *)
(* weak-entropy, blinding, hash-strength, 'use rsa.SignPSS'.               *)
(***************************************************************************)
C7_SignFourDiagnostics ==
    (IsAstCallTo("SignPKCS1v15") /\ IsNilExpr(astCall.args[1])
        /\ ~astCall.args[3].value.isNil /\ astCall.args[3].value.int \notin {5, 7})
    => /\ astCallMsgs = << Msg(randSourceLintMessageAST), Msg(blidingLintMessage),
                           Msg(hashLintSigningMessage), Msg(signingLintMessage) >>
       /\ ~astPanic

C7_Witness ==
    /\ IsAstCallTo("SignPKCS1v15")
    /\ IsNilExpr(astCall.args[1])
    /\ astCall.args[3].value = IntValue(0)
    /\ Len(astCallMsgs) = 4
    /\ astCallMsgs[4] = Msg(signingLintMessage)

(***************************************************************************)
(* C8: for rsa.DecryptPKCS1v15SessionKey the key-size diagnostic is        *)
(* emitted when the fourth argument is an untyped nil or a byte-sequence   *)
(* literal shorter than 16 bytes (15 triggers it, 16 does not), and is not *)
(* emitted for a byte sequence whose length is not known at analysis time. *)
(***************************************************************************)
C8_SessionKeySize ==
    IsAstCallTo("DecryptPKCS1v15SessionKey") =>
       LET key == astCall.args[4]
           emitted == Msg(keySizeLintcMessage) \in Range(astCallMsgs)
       IN  /\ IsNilExpr(key) => emitted
           /\ (IsByteLiteral(key) /\ LiteralLen(key) < 16) => emitted
           /\ (IsByteLiteral(key) /\ LiteralLen(key) = 16) => ~emitted
           /\ IsDynamicBytes(key) => ~emitted

(***************************************************************************)
(* C9: for rsa.DecryptOAEP the checks run in the order hash constructor,   *)
(* secure entropy, blinding: a first argument that calls a hash            *)
(* constructor other than sha256.New and sha512.New gives the              *)
(* hash-strength diagnostic, a second argument other than rand.Reader the  *)
(* weak-entropy diagnostic, a second argument that is an untyped nil the   *)
(* blinding diagnostic, and nothing else is emitted; a weak constructor    *)
(* with a nil entropy argument gives exactly these three, in that order.   *)
(***************************************************************************)
C9_DecryptOAEPOrder ==
    IsAstCallTo("DecryptOAEP") =>
       LET hash == astCall.args[1]
           random == astCall.args[2]
       IN  /\ astCallMsgs = If(WeakHashConstructor(hash), Msg(hashLintEncDecMessage))
                            \o If(~IsRandReader(random), Msg(randSourceLintMessageAST))
                            \o If(IsNilExpr(random), Msg(blidingLintMessage))
           /\ (WeakHashConstructor(hash) /\ IsNilExpr(random)) =>
                 astCallMsgs = << Msg(hashLintEncDecMessage),
                                  Msg(randSourceLintMessageAST),
                                  Msg(blidingLintMessage) >>
           /\ ~astPanic

C9_Witness ==
    /\ IsAstCallTo("DecryptOAEP")
    /\ astCall.args[1].node = "CallExpr"
    /\ astCall.args[1].fun.node = "SelectorExpr"
    /\ astCall.args[1].fun.X = "sha1"
    /\ IsNilExpr(astCall.args[2])
    /\ Len(astCallMsgs) = 3
    /\ astCallMsgs[1] = Msg(hashLintEncDecMessage)

(***************************************************************************)
(* C11: when a matched call lacks an argument position its checks read     *)
(* (fewer than 2 arguments for GenerateKey, fewer than 3 for               *)
(* GenerateMultiPrimeKey, fewer than 1 for EncryptPKCS1v15), the failure   *)
(* is contained: nothing is reported as a finding for that call, and the   *)
(* run goes on -- the remaining functions are still walked, or, when there *)
(* are none, run returns.                                                  *)
(***************************************************************************)
IsShortCall(in) ==
    in.op = "Call" /\ in.callee \in RuleTable /\ Len(in.args) < ArgsRead(in.callee)

RECURSIVE WrapDepth(_)
WrapDepth(v) == IF v.kind = "MakeInterface" THEN 1 + WrapDepth(v.X) ELSE 0

RECURSIVE Innermost(_)
Innermost(v) == IF v.kind = "MakeInterface" THEN Innermost(v.X) ELSE v

NonSecureCall(v) == v.kind = "Call" /\ v.callee # randomReader

PosBefore(p, q) ==
    \/ p[1] < q[1]
    \/ p[1] = q[1] /\ p[2] < q[2]
    \/ p[1] = q[1] /\ p[2] = q[2] /\ p[3] < q[3]

\* the places in the output of the diagnostics of the call at pos
DiagsAt(pos) == { i \in DOMAIN diags : diags[i].pos = pos }

C13_TraversalOrder ==
    /\ \A a, b \in DOMAIN visited :
          a < b =>
            /\ PosBefore(visited[a][1], visited[b][1])
            /\ \A i \in DiagsAt(visited[a][1]), j \in DiagsAt(visited[b][1]) : i < j
    /\ \A i, j \in DOMAIN diags :
          (i < j /\ diags[i].pos = diags[j].pos) =>
            \A k \in i..j : diags[k].pos = diags[i].pos
    /\ \A i \in DOMAIN diags :
          \E a \in DOMAIN visited :
            diags[i].pos = visited[a][1] /\ visited[a][2] \in RuleTable

\* two matched calls in different functions have been walked, each with at
\* least two diagnostics
C13_Witness ==
    \E a, b \in DOMAIN visited :
        /\ a < b
        /\ visited[a][1][1] < visited[b][1][1]
        /\ visited[a][2] \in RuleTable
        /\ visited[b][2] \in RuleTable
        /\ Cardinality(DiagsAt(visited[a][1])) >= 2
        /\ Cardinality(DiagsAt(visited[b][1])) >= 2
====
